---- MODULE Spec2Model ----
(***************************************************************************)
(* Backtest execution and result aggregation of AV-APP5:                   *)
(*   run_backtests.py  (runner, batch aggregator, signal log, ranking)     *)
(*   backtest_ibit.py  (buy-and-hold simple_backtest)                      *)
(*                                                                         *)
(* Python dicts keep insertion order, and json.load / json.dump keep it    *)
(* too, so every dict is modelled as a sequence of [key, val] entries.     *)
(* Numbers: outcome_R is kept in hundredths of R, a win rate in            *)
(* ten-thousandths (6500 is 0.65).                                         *)
(* The strategy modules are not part of the sources at hand: what a        *)
(* strategy returns follows the Strategy Interface and the Summary of the  *)
(* specification.                                                          *)
(* A set {f(x) : x \in {e}} binds the value of e before f uses it, where a *)
(* LET would compute e again at every use.                                 *)
(***************************************************************************)
EXTENDS Integers, Sequences, FiniteSets, TLC

VARIABLES
    cache_data,     \* cache/market_data.json: dataType -> symbol -> price data
    fault,          \* which artifact file cannot be read or written ("none": all fine)
    results_file,   \* cache/<strategy>_results.json, per strategy
    signal_log,     \* cache/<strategy>_signal_log.json, per strategy
    ranking_file,   \* cache/signal_ranking_report.json
    ret,            \* what the last invocation returned or raised, and what it did
    supplied,       \* history: the signal counts handed to log_signals so far
    runs,           \* number of invocations made so far
    written,        \* history: the strategies whose result file a batch run has written
    inp             \* inputs of the pure reshaping functions (trades, closes)

vars == <<cache_data, fault, results_file, signal_log, ranking_file, ret, supplied, runs, written, inp>>

----------------------------------------------------------------------------
(* Bounds of the model *)

MaxRuns == 2
MaxCalls == 2
MaxSignals == 3
MaxRankSymbols == 11
MaxTrades == 3
MaxBars == 2

(* Program constants *)

TopN == 10
SentinelName == "daily_prices"

----------------------------------------------------------------------------
(* Python values *)

None == [py |-> "None"]
NaT == [py |-> "NaT"]
Timestamp(d) == [ts |-> d]

\* Timestamp.isoformat(): a string, no longer a Timestamp
IsoFormat(v) == [iso |-> v.ts]

\* pd.isna(value)
IsNa(v) == v = NaT

HasIsoFormat(v) == "ts" \in DOMAIN v

RECURSIVE SumSeq(_)
SumSeq(s) == IF s = <<>> THEN 0 ELSE Head(s) + SumSeq(Tail(s))

\* Series.cumsum().tolist()
CumSum(s) == [i \in 1..Len(s) |-> SumSeq(SubSeq(s, 1, i))]

----------------------------------------------------------------------------
(* Insertion-ordered dicts *)

Keys(d) == [i \in 1..Len(d) |-> d[i].key]
KeySet(d) == {d[i].key : i \in 1..Len(d)}
Has(d, k) == k \in KeySet(d)
Get(d, k) == d[CHOOSE i \in 1..Len(d) : d[i].key = k].val

\* d[k] = v: an existing key keeps its place, a new key goes last
Put(d, k, v) ==
    IF Has(d, k)
    THEN [i \in 1..Len(d) |-> IF d[i].key = k THEN [key |-> k, val |-> v] ELSE d[i]]
    ELSE Append(d, [key |-> k, val |-> v])

----------------------------------------------------------------------------
(* Strategies *)

KnownStrategies == {"ob_refined_strategy", "fractal_refined_strategy", "fractal_ob_strategy"}
Strategies == KnownStrategies \cup {"no_such_strategy"}
RankedStrategies == <<"fractal_refined_strategy", "fractal_ob_strategy">>

\* one trade row of the strategy's DataFrame
Trade(i, r) ==
    [entry_date |-> Timestamp(i),
     exit_date |-> IF r = 0 THEN NaT ELSE Timestamp(i + 1),
     outcome_R |-> r,
     type |-> IF i % 2 = 1 THEN "Bullish" ELSE "Bearish"]

TradesOf(outcomes) == [i \in 1..Len(outcomes) |-> Trade(i, outcomes[i])]

CountWins(trades) == Cardinality({i \in 1..Len(trades) : trades[i].outcome_R > 0})
CountTrades(trades, ty) == Cardinality({i \in 1..Len(trades) : trades[i].type = ty})

\* the Summary a strategy derives from its trades (spec 3 and 8)
summarize_trades(trades) ==
    LET n == Len(trades)
    IN [num_trades |-> n,
        avg_outcome_R |-> IF n = 0 THEN 0
                          ELSE SumSeq([i \in 1..n |-> trades[i].outcome_R]) \div n,
        win_rate_pos_R |-> IF n = 0 THEN 0 ELSE (CountWins(trades) * 10000) \div n,
        bullish_trades |-> CountTrades(trades, "Bullish"),
        bearish_trades |-> CountTrades(trades, "Bearish")]

\* a summary without its win rate key
MalformedSummary(trades) == [num_trades |-> Len(trades)]

\* convert_json_to_dataframe: data['prices'] and data['dates'] must be there
convert_json_to_dataframe(data) ==
    IF data.has_prices THEN [exc |-> FALSE, df |-> data.series]
    ELSE [exc |-> TRUE, error |-> "KeyError: 'prices'"]

\* what a strategy module makes of a price series: it raises, or gives
\* (signals, trades, summary); the order-block strategy has no signals
StrategyEvaluate(strategy_name, df) ==
    IF df.kind = "raises"
    THEN [exc |-> TRUE, error |-> "strategy computation error"]
    ELSE LET trades == TradesOf(df.outcomes)
         IN [exc |-> FALSE,
             has_signals |-> strategy_name # "ob_refined_strategy",
             signals |-> df.signals,
             trades |-> trades,
             summary |-> IF df.kind = "malformed" THEN MalformedSummary(trades)
                         ELSE summarize_trades(trades)]

----------------------------------------------------------------------------
(* Result records *)

\* one trade row made serializable: NaN/NaT becomes None, a date its ISO string
SerializeValue(v) ==
    IF IsNa(v) THEN None
    ELSE IF HasIsoFormat(v) THEN IsoFormat(v)
    ELSE v

\* the loop of lines 21-25 over one row; outcome_R and type are a number and
\* a string, neither NaN nor a date, so they stay as they are
SerializeTrade(t) ==
    [entry_date |-> SerializeValue(t.entry_date),
     exit_date |-> SerializeValue(t.exit_date),
     outcome_R |-> t.outcome_R,
     type |-> t.type]

format_strategy_results(symbol_name, summary, trades, strategy_name) ==
    [symbol |-> symbol_name,
     strategy |-> strategy_name,
     summary |-> summary,
     trades |-> [i \in 1..Len(trades) |-> SerializeTrade(trades[i])],
     equity_curve |-> IF trades # <<>>
                      THEN CumSum([i \in 1..Len(trades) |-> trades[i].outcome_R])
                      ELSE <<>>]

handle_strategy_error(symbol_name, strategy_name, error) ==
    [symbol |-> symbol_name,
     strategy |-> strategy_name,
     error |-> error,
     summary |-> [num_trades |-> 0,
                  avg_outcome_R |-> 0,
                  win_rate_pos_R |-> 0,
                  bullish_trades |-> 0,
                  bearish_trades |-> 0]]

\* buy-and-hold over the closes of a price series. Prices are whole units;
\* total_return is in percent, which is total_return / 100 in hundredths of R.
simple_backtest(closes, symbol) ==
    IF closes = <<>> THEN [error |-> "No data available"]
    ELSE LET start_price == closes[1]
             end_price == closes[Len(closes)]
             total_return == ((end_price - start_price) * 100) \div start_price
         IN [symbol |-> symbol,
             strategy |-> "buy_hold",
             summary |-> [num_trades |-> 1,
                          avg_outcome_R |-> total_return,
                          win_rate_pos_R |-> IF total_return > 0 THEN 10000 ELSE 0,
                          bullish_trades |-> 1,
                          bearish_trades |-> 0],
             trades |-> <<[entry_date |-> IsoFormat(Timestamp(1)),
                           exit_date |-> IsoFormat(Timestamp(Len(closes))),
                           entry_price |-> start_price,
                           exit_price |-> end_price,
                           outcome_R |-> total_return,
                           type |-> "Bullish"]>>,
             equity_curve |-> <<0, total_return>>]

----------------------------------------------------------------------------
(* Signal log *)

EmptySignalLog ==
    [total_signals |-> 0, by_symbol |-> <<>>, by_type |-> [Bullish |-> 0, Bearish |-> 0]]

AbsentFile == [exists |-> FALSE, content |-> <<>>]
File(c) == [exists |-> TRUE, content |-> c]

CountType(signals, ty) == Cardinality({i \in 1..Len(signals) : signals[i] = ty})

\* the entry of a symbol were the counts assigned (=) instead of added (+=)
BumpSymbolReset(entry, total_count, bullish_count, bearish_count) ==
    [total |-> total_count, bullish |-> bullish_count, bearish |-> bearish_count]

\* signal_log['by_symbol'][symbol_name] after the three += of one call
BumpSymbol(entry, total_count, bullish_count, bearish_count) ==
    [total |-> entry.total + total_count,
     bullish |-> entry.bullish + bullish_count,
     bearish |-> entry.bearish + bearish_count]

\* the log after the counts of one call are merged in
MergeSignals(log, symbol_name, signals) ==
    LET bullish_count == CountType(signals, "Bullish")
        bearish_count == CountType(signals, "Bearish")
        total_count == Len(signals)
        by0 == IF Has(log.by_symbol, symbol_name) THEN log.by_symbol
               ELSE Put(log.by_symbol, symbol_name, [total |-> 0, bullish |-> 0, bearish |-> 0])
    IN [total_signals |-> log.total_signals + total_count,
        by_type |-> [Bullish |-> log.by_type.Bullish + bullish_count,
                     Bearish |-> log.by_type.Bearish + bearish_count],
        by_symbol |-> Put(by0, symbol_name,
                          BumpSymbol(Get(by0, symbol_name), total_count,
                                     bullish_count, bearish_count))]

\* log_signals: load or create, merge, save. With the log file unreadable or
\* unwritable the open() raises and the file is left as it was.
log_signals(logs, flt, symbol_name, strategy_name, signals) ==
    IF flt = "signal_log"
    THEN [exc |-> TRUE, error |-> "OSError: signal log", logs |-> logs]
    ELSE LET loaded == IF logs[strategy_name].exists THEN logs[strategy_name].content
                       ELSE EmptySignalLog
         IN [exc |-> FALSE,
             logs |-> [logs EXCEPT ![strategy_name] =
                           File(MergeSignals(loaded, symbol_name, signals))]]

----------------------------------------------------------------------------
(* Backtest runner *)

\* the try block of run_strategy_backtest
TryBlock(logs, flt, data, symbol_name, strategy_name) ==
    IF strategy_name \notin KnownStrategies
    THEN [exc |-> TRUE, error |-> "Unknown strategy", io |-> FALSE, logs |-> logs]
    ELSE LET conv == convert_json_to_dataframe(data)
         IN IF conv.exc
            THEN [exc |-> TRUE, error |-> conv.error, io |-> FALSE, logs |-> logs]
            ELSE LET ev == StrategyEvaluate(strategy_name, conv.df)
                 IN IF ev.exc
                    THEN [exc |-> TRUE, error |-> ev.error, io |-> FALSE, logs |-> logs]
                    ELSE LET lg == IF ev.has_signals /\ ev.signals # <<>>
                                   THEN log_signals(logs, flt, symbol_name,
                                                   strategy_name, ev.signals)
                                   ELSE [exc |-> FALSE, logs |-> logs]
                         IN IF lg.exc
                            THEN [exc |-> TRUE, error |-> lg.error, io |-> TRUE,
                                  logs |-> lg.logs]
                            ELSE [exc |-> FALSE, io |-> FALSE, logs |-> lg.logs,
                                  value |-> format_strategy_results(symbol_name,
                                               ev.summary, ev.trades, strategy_name)]

\* what `except ValueError` would take: the unknown strategy only
CaughtValueErrorOnly(t) == t.exc /\ t.error = "Unknown strategy"

\* what `except Exception` takes: every exception of the try block
Caught(t) == t.exc

\* what run_strategy_backtest gives once its try block has ended as t.
\* persist_errors counts the persistence failures met on the way.
AfterTry(t, symbol_name, strategy_name) ==
    IF Caught(t)
    THEN [kind |-> "returned", logs |-> t.logs,
          persist_errors |-> IF t.io THEN 1 ELSE 0,
          value |-> handle_strategy_error(symbol_name, strategy_name, t.error)]
    ELSE IF t.exc
         THEN [kind |-> "raised", logs |-> t.logs,
               persist_errors |-> IF t.io THEN 1 ELSE 0, value |-> None]
         ELSE [kind |-> "returned", logs |-> t.logs, persist_errors |-> 0,
               value |-> t.value]

\* run_strategy_backtest; run_backtest_on_symbol only forwards to it
run_strategy_backtest(logs, flt, data, symbol_name, strategy_name) ==
    CHOOSE out \in {AfterTry(t, symbol_name, strategy_name) :
                       t \in {TryBlock(logs, flt, data, symbol_name, strategy_name)}} : TRUE

----------------------------------------------------------------------------
(* Batch aggregator *)

\* summary['win_rate_pos_R'] * 100, in ten-thousandths of a percent
win_rate_pct(summary) == summary.win_rate_pos_R * 100

\* 65.0 percent on the scale of win_rate_pct
Threshold == 65 * 10000

\* the removing test were it `win_rate_pct <= 65.0`
BelowThresholdInclusive(summary) == win_rate_pct(summary) <= Threshold

\* the test `win_rate_pct < 65.0` that removes a result
BelowThreshold(summary) == win_rate_pct(summary) < Threshold

\* lines 120-135 for one symbol: store what the runner gave, then keep it or
\* replace it by None. acc is the loop's state so far, r the runner's outcome.
StoreResult(acc, r, data_type, symbol, data) ==
    LET call == [data_type |-> data_type, symbol |-> symbol, data |-> data,
                 result |-> r.value]
        errs == acc.persist_errors + r.persist_errors
    IN IF r.kind = "raised"
       THEN [acc EXCEPT !.status = "raised", !.logs = r.logs,
                        !.persist_errors = errs]
       ELSE IF "error" \notin DOMAIN r.value
            THEN IF "win_rate_pos_R" \notin DOMAIN r.value.summary
                 THEN \* KeyError, outside any try
                      [acc EXCEPT !.logs = r.logs, !.persist_errors = errs,
                                  !.calls = Append(@, call), !.status = "raised",
                                  !.symbols = Put(@, symbol, r.value)]
                 ELSE IF BelowThreshold(r.value.summary)
                      THEN [acc EXCEPT !.logs = r.logs, !.persist_errors = errs,
                                       !.calls = Append(@, call),
                                       !.symbols = Put(@, symbol, None)]
                      ELSE [acc EXCEPT !.logs = r.logs, !.persist_errors = errs,
                                       !.calls = Append(@, call),
                                       !.symbols = Put(@, symbol, r.value)]
            ELSE [acc EXCEPT !.logs = r.logs, !.persist_errors = errs,
                             !.calls = Append(@, call),
                             !.symbols = Put(@, symbol, None)]

\* lines 118-135 for one symbol: run it, then store or drop its result
ProcessSymbol(acc, flt, data_type, symbol, data, strategy_name) ==
    CHOOSE out \in {StoreResult(acc, r, data_type, symbol, data) :
                       r \in {run_strategy_backtest(acc.logs, flt, data, symbol,
                                                  strategy_name)}} : TRUE

\* the inner loop over one dataType's symbols, from entry i on
RECURSIVE ProcessSymbols(_, _, _, _, _, _)
ProcessSymbols(acc, flt, data_type, symbols, i, strategy_name) ==
    IF acc.status = "raised" \/ i > Len(symbols) THEN acc
    ELSE IF symbols[i].key = SentinelName
         THEN ProcessSymbols(acc, flt, data_type, symbols, i + 1, strategy_name)
         ELSE CHOOSE out \in
                  {ProcessSymbols(a, flt, data_type, symbols, i + 1, strategy_name) :
                      a \in {ProcessSymbol(acc, flt, data_type, symbols[i].key,
                                           symbols[i].val, strategy_name)}} : TRUE

\* the outer loop over the dataTypes, from entry i on
RECURSIVE ProcessDataTypes(_, _, _, _, _)
ProcessDataTypes(acc, flt, cache, i, strategy_name) ==
    IF acc.status = "raised" \/ i > Len(cache) THEN acc
    ELSE CHOOSE out \in
             {ProcessDataTypes([inner EXCEPT !.results = Put(acc.results, cache[i].key,
                                                             inner.symbols)],
                               flt, cache, i + 1, strategy_name) :
                 inner \in {ProcessSymbols([acc EXCEPT !.symbols = <<>>], flt, cache[i].key,
                                           cache[i].val, 1, strategy_name)}} : TRUE

NotNone(e) == e.val # None

\* lines 138-140: the mapping without its None entries
filtered_results(results) ==
    [i \in 1..Len(results) |->
        [key |-> results[i].key, val |-> SelectSeq(results[i].val, NotNone)]]

\* the result file were the new mapping added to what the file held
WrittenMerged(previous, filtered) ==
    IF previous.exists THEN File(previous.content \o filtered) ELSE File(filtered)

\* what open(cache_file, 'w') and json.dump leave in the strategy's result
\* file: the new mapping and nothing of the previous content
Written(previous, filtered) == File(filtered)

----------------------------------------------------------------------------
(* Signal ranking *)

\* s with x put behind every entry whose total is at least x's
RECURSIVE InsertDesc(_, _)
InsertDesc(s, x) ==
    IF s = <<>> THEN <<x>>
    ELSE IF Head(s).val.total >= x.val.total THEN <<Head(s)>> \o InsertDesc(Tail(s), x)
         ELSE <<x>> \o s

\* s with x put before every entry whose total is at most x's
RECURSIVE InsertDescFirst(_, _)
InsertDescFirst(s, x) ==
    IF s = <<>> THEN <<x>>
    ELSE IF Head(s).val.total > x.val.total THEN <<Head(s)>> \o InsertDescFirst(Tail(s), x)
         ELSE <<x>> \o s

\* a descending sort that turns equal totals around (an ascending sort, reversed)
RECURSIVE symbol_ranking_unstable(_)
symbol_ranking_unstable(items) ==
    IF items = <<>> THEN <<>>
    ELSE InsertDescFirst(symbol_ranking_unstable(SubSeq(items, 1, Len(items) - 1)),
                         items[Len(items)])

\* sorted(items, key=total, reverse=True): descending, and equal totals keep
\* the order they had
RECURSIVE symbol_ranking(_)
symbol_ranking(items) ==
    IF items = <<>> THEN <<>>
    ELSE InsertDesc(symbol_ranking(SubSeq(items, 1, Len(items) - 1)),
                    items[Len(items)])

\* symbol_ranking[:10]
Truncate(s, n) == SubSeq(s, 1, IF Len(s) < n THEN Len(s) ELSE n)

\* the loop of generate_signal_ranking over its strategies, from entry i on
RECURSIVE ranking_report(_, _)
ranking_report(logs, i) ==
    IF i > Len(RankedStrategies) THEN <<>>
    ELSE LET strategy == RankedStrategies[i]
             rest == ranking_report(logs, i + 1)
         IN IF logs[strategy].exists
            THEN LET log == logs[strategy].content
                 IN <<[key |-> strategy,
                       val |-> [total_signals |-> log.total_signals,
                                signal_distribution |-> log.by_type,
                                top_symbols |-> Truncate(symbol_ranking(log.by_symbol),
                                                         TopN)]]>> \o rest
            ELSE rest

----------------------------------------------------------------------------
(* Price series store contents *)

Series(kind, outcomes, signals) ==
    [has_prices |-> TRUE,
     series |-> [kind |-> kind, outcomes |-> outcomes, signals |-> signals]]

\* 2 winners of 2
HighData == Series("ok", <<150, 200>>, <<"Bullish", "Bearish", "Bullish">>)
\* 13 winners of 20: a win rate of exactly 0.65
BoundaryData ==
    Series("ok", [i \in 1..20 |-> IF i <= 13 THEN 100 ELSE -100], <<"Bullish", "Bearish">>)
\* 11 winners of 17: 0.647
BelowData == Series("ok", [i \in 1..17 |-> IF i <= 11 THEN 100 ELSE -100], <<"Bearish">>)
\* flat prices: one trade of 0 R, and zero is not a win
ZeroData == Series("ok", <<0>>, <<"Bullish">>)
\* too short a series: no signals, no trades
ShortData == Series("ok", <<>>, <<>>)
RaisesData == Series("raises", <<>>, <<>>)
MalformedData == Series("malformed", <<100>>, <<"Bullish">>)
\* an entry without its 'prices'
BadData == [has_prices |-> FALSE]

DataChoices ==
    {HighData, BoundaryData, BelowData, ZeroData, ShortData, RaisesData, MalformedData, BadData}

Entry(k, v) == [key |-> k, val |-> v]

Store(xyz, aaa, generic) ==
    <<Entry("stocks", <<Entry("XYZ", xyz), Entry(SentinelName, HighData), Entry("AAA", aaa)>>),
      Entry("etfs", <<Entry("IBIT", BoundaryData)>>)>>
    \o (IF generic THEN <<Entry(SentinelName, <<Entry("GEN", HighData)>>)>> ELSE <<>>)

Stores == {Store(x, a, g) : x \in DataChoices, a \in DataChoices, g \in BOOLEAN}

\* every (dataType, symbol, data) of the store, in iteration order
RECURSIVE Flatten(_)
Flatten(cache) ==
    IF cache = <<>> THEN <<>>
    ELSE [i \in 1..Len(Head(cache).val) |->
             [data_type |-> Head(cache).key, symbol |-> Head(cache).val[i].key,
              data |-> Head(cache).val[i].val]]
         \o Flatten(Tail(cache))

Range(s) == {s[i] : i \in 1..Len(s)}

\* a result file left by a run over earlier price data
StaleResults ==
    <<Entry("stocks",
            <<Entry("OLD", format_strategy_results("OLD", summarize_trades(TradesOf(<<100>>)),
                                                 TradesOf(<<100>>), "ob_refined_strategy"))>>)>>

Faults == {"none", "market_data", "results", "signal_log"}

NoRet ==
    [op |-> "none", kind |-> "none", strategy |-> "none", value |-> None, calls |-> <<>>,
     reached_persist |-> FALSE, persist_errors |-> 0, rerun |-> FALSE]

NoInp == [outcomes |-> <<>>, closes |-> <<>>]

----------------------------------------------------------------------------
(* Batch runs and single-symbol runs *)

Init ==
    /\ cache_data \in Stores
    /\ fault \in Faults
    /\ results_file = [s \in Strategies |->
                          IF s = "ob_refined_strategy" THEN File(StaleResults) ELSE AbsentFile]
    /\ signal_log = [s \in Strategies |-> AbsentFile]
    /\ ranking_file = AbsentFile
    /\ ret = NoRet
    /\ supplied = <<>>
    /\ runs = 0
    /\ written = {}
    /\ inp = NoInp

\* run_all_backtests(strategy_name)
run_all_backtests(strategy_name) ==
    /\ runs < MaxRuns
    /\ runs' = runs + 1
    /\ UNCHANGED <<cache_data, fault, ranking_file, supplied, inp>>
    /\ IF fault = "market_data"
       THEN \* open('cache/market_data.json') raises
            /\ ret' = [NoRet EXCEPT !.op = "run_all", !.kind = "raised",
                                    !.strategy = strategy_name, !.persist_errors = 1]
            /\ UNCHANGED <<results_file, signal_log, written>>
       ELSE \E acc \in {ProcessDataTypes([status |-> "ok", logs |-> signal_log,
                                          results |-> <<>>, symbols |-> <<>>,
                                          calls |-> <<>>, persist_errors |-> 0],
                                         fault, cache_data, 1, strategy_name)} :
            LET r0 == [NoRet EXCEPT !.op = "run_all", !.strategy = strategy_name,
                                    !.calls = acc.calls]
            IN /\ signal_log' = acc.logs
               /\ IF acc.status = "raised"
                  THEN /\ ret' = [r0 EXCEPT !.kind = "raised",
                                            !.persist_errors = acc.persist_errors]
                       /\ UNCHANGED <<results_file, written>>
                  ELSE IF fault = "results"
                       THEN \* open(cache_file, 'w') raises
                            /\ ret' = [r0 EXCEPT !.kind = "raised", !.reached_persist = TRUE,
                                                 !.persist_errors = acc.persist_errors + 1]
                            /\ UNCHANGED <<results_file, written>>
                       ELSE /\ results_file' =
                                   [results_file EXCEPT ![strategy_name] =
                                        Written(results_file[strategy_name],
                                                filtered_results(acc.results))]
                            /\ written' = written \cup {strategy_name}
                            /\ ret' = [r0 EXCEPT !.kind = "returned", !.value = acc.results,
                                                 !.reached_persist = TRUE,
                                                 !.persist_errors = acc.persist_errors,
                                                 !.rerun = strategy_name \in written]

\* run_backtest_on_symbol(data, symbol_name, strategy_name)
run_backtest_on_symbol(data, symbol_name, strategy_name) ==
    /\ runs < MaxRuns
    /\ runs' = runs + 1
    /\ \E r \in {run_strategy_backtest(signal_log, fault, data, symbol_name, strategy_name)} :
          /\ signal_log' = r.logs
          /\ ret' = [NoRet EXCEPT !.op = "run_symbol", !.kind = r.kind,
                                  !.strategy = strategy_name, !.value = r.value,
                                  !.persist_errors = r.persist_errors,
                                  !.calls = <<[data_type |-> "", symbol |-> symbol_name,
                                               data |-> data, result |-> r.value]>>]
    /\ UNCHANGED <<cache_data, fault, results_file, ranking_file, supplied, written, inp>>

Next == \E s \in Strategies : run_all_backtests(s)

Spec == Init /\ [][Next]_vars

----------------------------------------------------------------------------
(* Single-symbol runs on their own, over every kind of price data *)

SymbolNames == {"XYZ", "AAA"}

InitSymbol ==
    /\ cache_data = Store(HighData, HighData, FALSE)
    /\ fault \in Faults
    /\ results_file = [s \in Strategies |-> AbsentFile]
    /\ signal_log = [s \in Strategies |-> AbsentFile]
    /\ ranking_file = AbsentFile
    /\ ret = NoRet
    /\ supplied = <<>>
    /\ runs = 0
    /\ written = {}
    /\ inp = NoInp

NextSymbol ==
    \E d \in DataChoices, n \in SymbolNames, s \in Strategies : run_backtest_on_symbol(d, n, s)

SpecSymbol == InitSymbol /\ [][NextSymbol]_vars

----------------------------------------------------------------------------
(* The signal log under direct log_signals calls, from an absent log *)

LogStrategies == Range(RankedStrategies)

\* a signals frame of nb Bullish rows and ns Bearish rows
MakeSignals(nb, ns) == [i \in 1..(nb + ns) |-> IF i <= nb THEN "Bullish" ELSE "Bearish"]

NoneSupplied ==
    [s \in LogStrategies |-> [n \in SymbolNames |-> [calls |-> 0, bullish |-> 0, bearish |-> 0]]]

InitLog ==
    /\ cache_data = Store(HighData, HighData, FALSE)
    /\ fault = "none"
    /\ results_file = [s \in Strategies |-> AbsentFile]
    /\ signal_log = [s \in Strategies |-> AbsentFile]
    /\ ranking_file = AbsentFile
    /\ ret = NoRet
    /\ supplied = NoneSupplied
    /\ runs = 0
    /\ written = {}
    /\ inp = NoInp

\* log_signals(symbol_name, strategy_name, signals)
LogSignalsCall(symbol_name, strategy_name, nb, ns) ==
    /\ runs < MaxCalls
    /\ nb + ns >= 1
    /\ nb + ns <= MaxSignals
    /\ runs' = runs + 1
    /\ LET r == log_signals(signal_log, fault, symbol_name, strategy_name, MakeSignals(nb, ns))
       IN /\ signal_log' = r.logs
          /\ ret' = [NoRet EXCEPT !.op = "log_signals", !.strategy = strategy_name,
                                  !.kind = IF r.exc THEN "raised" ELSE "returned"]
    /\ supplied' = [supplied EXCEPT ![strategy_name][symbol_name] =
                        [calls |-> @.calls + 1, bullish |-> @.bullish + nb,
                         bearish |-> @.bearish + ns]]
    /\ UNCHANGED <<cache_data, fault, results_file, ranking_file, written, inp>>

NextLog ==
    \E n \in SymbolNames, s \in LogStrategies, nb \in 0..MaxSignals, ns \in 0..MaxSignals :
        LogSignalsCall(n, s, nb, ns)

SpecLog == InitLog /\ [][NextLog]_vars

----------------------------------------------------------------------------
(* The ranking report over signal logs of up to MaxRankSymbols symbols *)

\* the order in which the symbols were first logged
RankSymbolOrder ==
    <<"NVDA", "AAPL", "TSLA", "MSFT", "AMZN", "META", "GOOG", "IBIT", "SPY", "QQQ", "AMD",
      "NFLX", "INTC">>

\* the logs after log_signals was called once for each of the first n symbols,
\* the i-th call with t[i] signals
RECURSIVE LogsAfter(_, _, _)
LogsAfter(strategy_name, n, t) ==
    IF n = 0 THEN [s \in Strategies |-> AbsentFile]
    ELSE log_signals(LogsAfter(strategy_name, n - 1, t), "none", RankSymbolOrder[n],
                    strategy_name, MakeSignals(1, t[n] - 1)).logs

InitRank ==
    /\ cache_data = Store(HighData, HighData, FALSE)
    /\ fault = "none"
    /\ results_file = [s \in Strategies |-> AbsentFile]
    /\ \E n \in 0..MaxRankSymbols, m \in 0..1 :
         \E t \in [1..n -> {1, 2}] :
           signal_log =
               [s \in Strategies |->
                   IF s = RankedStrategies[1] THEN LogsAfter(s, n, t)[s]
                   ELSE IF s = RankedStrategies[2] THEN LogsAfter(s, m, <<2>>)[s]
                   ELSE AbsentFile]
    /\ ranking_file = AbsentFile
    /\ ret = NoRet
    /\ supplied = <<>>
    /\ runs = 0
    /\ written = {}
    /\ inp = NoInp

\* generate_signal_ranking()
generate_signal_ranking ==
    /\ runs < 1
    /\ runs' = runs + 1
    /\ LET report == ranking_report(signal_log, 1)
       IN /\ ranking_file' = File(report)
          /\ ret' = [NoRet EXCEPT !.op = "ranking", !.kind = "returned",
                                  !.value = report]
    /\ UNCHANGED <<cache_data, fault, results_file, signal_log, supplied, written, inp>>

NextRank == generate_signal_ranking

SpecRank == InitRank /\ [][NextRank]_vars

----------------------------------------------------------------------------
(* The two builders of a success record, over bounded trades and closes *)

SeqsUpTo(S, n) == UNION {[1..k -> S] : k \in 0..n}

InitFormat ==
    /\ cache_data = Store(HighData, HighData, FALSE)
    /\ fault = "none"
    /\ results_file = [s \in Strategies |-> AbsentFile]
    /\ signal_log = [s \in Strategies |-> AbsentFile]
    /\ ranking_file = AbsentFile
    /\ ret = NoRet
    /\ supplied = <<>>
    /\ runs = 0
    /\ written = {}
    /\ inp \in [outcomes : SeqsUpTo({-100, 0, 150}, MaxTrades),
                closes : SeqsUpTo({50, 100, 200}, MaxBars)]

\* format_strategy_results on the trades of a strategy
FormatCall ==
    /\ runs < 1
    /\ runs' = runs + 1
    /\ LET trades == TradesOf(inp.outcomes)
       IN ret' = [NoRet EXCEPT !.op = "format", !.kind = "returned",
                               !.value = format_strategy_results("XYZ", summarize_trades(trades),
                                                               trades, "fractal_ob_strategy")]
    /\ UNCHANGED <<cache_data, fault, results_file, signal_log, ranking_file, supplied,
                   written, inp>>

\* simple_backtest on a price series
SimpleBacktestCall ==
    /\ runs < 1
    /\ runs' = runs + 1
    /\ ret' = [NoRet EXCEPT !.op = "simple_backtest", !.kind = "returned",
                            !.value = simple_backtest(inp.closes, "IBIT")]
    /\ UNCHANGED <<cache_data, fault, results_file, signal_log, ranking_file, supplied,
                   written, inp>>

NextFormat == FormatCall \/ SimpleBacktestCall

SpecFormat == InitFormat /\ [][NextFormat]_vars

----------------------------------------------------------------------------
(* Properties *)

ZeroedSummary ==
    [num_trades |-> 0, avg_outcome_R |-> 0, win_rate_pos_R |-> 0,
     bullish_trades |-> 0, bearish_trades |-> 0]

\* the input of a single-symbol run on which strategy evaluation fails
EvaluationFails(data, strategy_name) ==
    \/ strategy_name \notin KnownStrategies
    \/ ~data.has_prices
    \/ data.series.kind = "raises"

\* C1: run_strategy_backtest never lets an exception reach its caller, and
\* on an unknown strategy, on price data without its prices and on a strategy
\* that raises it returns exactly {symbol, strategy, error, summary} with the
\* zeroed summary.
C1_RunnerNeverRaises ==
    ret.op = "run_symbol" =>
        /\ ret.kind = "returned"
        /\ EvaluationFails(ret.calls[1].data, ret.strategy) =>
              /\ DOMAIN ret.value = {"symbol", "strategy", "error", "summary"}
              /\ ret.value.symbol = ret.calls[1].symbol
              /\ ret.value.strategy = ret.strategy
              /\ ret.value.summary = ZeroedSummary

\* a known strategy raised inside its evaluation and the caller got the error record
C1_Witness ==
    /\ ret.op = "run_symbol"
    /\ ret.strategy \in KnownStrategies
    /\ ret.calls[1].data = RaisesData
    /\ ret.kind = "returned"
    /\ "error" \in DOMAIN ret.value

\* the result of a call is in the artifact, under its dataType and symbol
Persisted(art, c) ==
    /\ Has(art, c.data_type)
    /\ Has(Get(art, c.data_type), c.symbol)
    /\ Get(Get(art, c.data_type), c.symbol) = c.result

\* C2: after a batch run has finished, the strategy's result file holds a
\* symbol's result if and only if that result carries no error and its
\* win rate times 100 is at least 65.0 (65 exactly is kept); it holds no error
\* record and nothing else.
C2_RetentionFilter ==
    (ret.op = "run_all" /\ ret.kind = "returned") =>
        LET art == results_file[ret.strategy].content
        IN /\ \A i \in 1..Len(ret.calls) :
                  Persisted(art, ret.calls[i])
                  <=> /\ "error" \notin DOMAIN ret.calls[i].result
                      /\ ret.calls[i].result.summary.win_rate_pos_R * 100 >= 65 * 10000
           /\ \A i \in 1..Len(art) : \A j \in 1..Len(art[i].val) :
                  /\ "error" \notin DOMAIN art[i].val[j].val
                  /\ \E k \in 1..Len(ret.calls) :
                        /\ ret.calls[k].data_type = art[i].key
                        /\ ret.calls[k].symbol = art[i].val[j].key

\* a finished run that kept the symbol at exactly 65%, dropped one just below
\* and dropped one whose evaluation raised
C2_Witness ==
    /\ ret.op = "run_all"
    /\ ret.kind = "returned"
    /\ ret.strategy \in KnownStrategies
    /\ Has(Get(results_file[ret.strategy].content, "etfs"), "IBIT")
    /\ Get(Get(results_file[ret.strategy].content, "etfs"), "IBIT").summary.win_rate_pos_R = 6500
    /\ \E i, j \in 1..Len(ret.calls) :
          /\ ret.calls[i].data = BelowData
          /\ ret.calls[j].data = RaisesData
          /\ ~Has(Get(results_file[ret.strategy].content, "stocks"), ret.calls[i].symbol)
          /\ ~Has(Get(results_file[ret.strategy].content, "stocks"), ret.calls[j].symbol)

NotSentinelSymbol(e) == e.symbol # SentinelName

\* C3: once the price cache is loaded, a batch run hands every (dataType,
\* symbol) pair other than the sentinel to the runner exactly once, in
\* iteration order, whatever the earlier symbols gave, and reaches the
\* persist step.
C3_BatchNeverStops ==
    (ret.op = "run_all" /\ fault # "market_data") =>
        /\ [i \in 1..Len(ret.calls) |->
               [data_type |-> ret.calls[i].data_type, symbol |-> ret.calls[i].symbol,
                data |-> ret.calls[i].data]]
           = SelectSeq(Flatten(cache_data), NotSentinelSymbol)
        /\ ret.reached_persist

\* C4: the sentinel name is a key at no level of a result file a batch run
\* wrote, and nothing stored under the sentinel is handed to the runner.
C4_SentinelNeverPersisted ==
    (ret.op = "run_all" /\ ret.kind = "returned") =>
        LET art == results_file[ret.strategy].content
        IN /\ ~Has(art, SentinelName)
           /\ \A i \in 1..Len(art) : ~Has(art[i].val, SentinelName)
           /\ \A i \in 1..Len(ret.calls) :
                  /\ ret.calls[i].data_type # SentinelName
                  /\ ret.calls[i].symbol # SentinelName

\* the sum of f[x] over the x in S
RECURSIVE SumOver(_, _)
SumOver(S, f) ==
    IF S = {} THEN 0
    ELSE LET x == CHOOSE y \in S : TRUE IN f[x] + SumOver(S \ {x}, f)

\* C5: after any sequence of log_signals calls from an absent log, the log of
\* a strategy is the exact sum of what was supplied: per symbol the summed
\* Bullish, Bearish and all-signal counts, by_type the sums over all calls,
\* and total_signals the sum of the symbols' totals.
C5_LogIsExactSum ==
    \A s \in LogStrategies :
        LET called == {n \in SymbolNames : supplied[s][n].calls > 0}
            Bull(n) == supplied[s][n].bullish
            Bear(n) == supplied[s][n].bearish
        IN IF called = {} THEN ~signal_log[s].exists
           ELSE LET log == signal_log[s].content
                    LoggedTotal(n) == Get(log.by_symbol, n).total
                IN /\ signal_log[s].exists
                   /\ KeySet(log.by_symbol) = called
                   /\ Len(log.by_symbol) = Cardinality(called)
                   /\ \A n \in called :
                          Get(log.by_symbol, n)
                          = [total |-> Bull(n) + Bear(n), bullish |-> Bull(n),
                             bearish |-> Bear(n)]
                   /\ log.by_type.Bullish = SumOver(called, [n \in called |-> Bull(n)])
                   /\ log.by_type.Bearish = SumOver(called, [n \in called |-> Bear(n)])
                   /\ log.total_signals = SumOver(called, [n \in called |-> LoggedTotal(n)])

\* {Bullish:2, Bearish:1} then {Bullish:1, Bearish:0} for one symbol
C5_Witness ==
    \E s \in LogStrategies :
        /\ supplied[s]["XYZ"] = [calls |-> 2, bullish |-> 3, bearish |-> 1]
        /\ signal_log[s].exists
        /\ Get(signal_log[s].content.by_symbol, "XYZ")
           = [total |-> 4, bullish |-> 3, bearish |-> 1]

Position(d, k) == CHOOSE i \in 1..Len(d) : d[i].key = k

\* what the top list of every reported strategy has whatever the order means:
\* its length, its entries and that they are the highest totals
TopListOf(top, by) ==
    /\ Len(top) = IF Len(by) < 10 THEN Len(by) ELSE 10
    /\ \A a \in 1..Len(top) : top[a] \in Range(by)
    /\ \A a, b \in 1..Len(top) :
           (a < b /\ top[a].val.total = top[b].val.total)
               => Position(by, top[a].key) < Position(by, top[b].key)
    /\ \A e \in Range(by) :
           e \notin Range(top) => \A a \in 1..Len(top) : top[a].val.total >= e.val.total

\* C6, as stated: the top list of each reported strategy has min(10, symbols)
\* entries, the highest totals, equal totals in by_symbol order, and every
\* entry's total is strictly above the next one's.
C6_StrictlyDescending ==
    ret.op = "ranking" =>
        \A j \in 1..Len(ret.value) :
            LET top == ret.value[j].val.top_symbols
                by == signal_log[ret.value[j].key].content.by_symbol
            IN /\ TopListOf(top, by)
               /\ \A a \in 1..(Len(top) - 1) : top[a].val.total > top[a + 1].val.total

\* C6, amended: the top list of each reported strategy has min(10, symbols)
\* entries, the highest totals, equal totals in by_symbol order, and every
\* entry's total is at least the next one's; the report names exactly the
\* strategies that have a log and is what the report file holds.
C6_Ranking ==
    ret.op = "ranking" =>
        /\ KeySet(ret.value) = {s \in LogStrategies : signal_log[s].exists}
        /\ ranking_file = File(ret.value)
        /\ \A j \in 1..Len(ret.value) :
               LET top == ret.value[j].val.top_symbols
                   by == signal_log[ret.value[j].key].content.by_symbol
               IN /\ TopListOf(top, by)
                  /\ \A a \in 1..(Len(top) - 1) : top[a].val.total >= top[a + 1].val.total

\* a log of 11 symbols cut to 10, with equal totals among those kept and an
\* entry that moved up
C6_Witness ==
    /\ ret.op = "ranking"
    /\ \E j \in 1..Len(ret.value) :
           LET top == ret.value[j].val.top_symbols
               by == signal_log[ret.value[j].key].content.by_symbol
           IN /\ Len(by) = 11
              /\ Len(top) = 10
              /\ top[1].val.total = top[2].val.total
              /\ top[1].key # by[1].key
              /\ top[10].val.total < top[1].val.total

\* C7: a success record's equity curve has one entry per trade, the i-th the
\* sum of outcome_R over the first i trades, for format_strategy_results and
\* for simple_backtest alike.
C7_EquityIsPrefixSum ==
    (ret.op \in {"format", "simple_backtest"} /\ "error" \notin DOMAIN ret.value) =>
        LET trades == ret.value.trades
            equity == ret.value.equity_curve
        IN /\ Len(equity) = Len(trades)
           /\ \A i \in 1..Len(equity) :
                  equity[i] = SumSeq([k \in 1..i |-> trades[k].outcome_R])

\* C8: a finished batch run leaves the result files of the other strategies
\* alone, leaves in its own file nothing but what this run produced, and
\* leaves a file a batch run had already written exactly as it was.
C8_IdempotentOverwrite ==
    [][(ret'.op = "run_all" /\ ret'.kind = "returned" /\ runs' = runs + 1) =>
          LET s == ret'.strategy
              art == results_file'[s].content
          IN /\ \A t \in Strategies \ {s} : results_file'[t] = results_file[t]
             /\ s \in written => results_file'[s] = results_file[s]
             /\ results_file'[s].exists
             /\ Keys(art) = Keys(cache_data)
             /\ \A i \in 1..Len(art) : \A j \in 1..Len(art[i].val) :
                    \E k \in 1..Len(ret'.calls) :
                        /\ ret'.calls[k].data_type = art[i].key
                        /\ ret'.calls[k].symbol = art[i].val[j].key
                        /\ ret'.calls[k].result = art[i].val[j].val]_vars

\* the second run of the strategy whose file began with a stale entry
C8_Witness ==
    /\ ret.op = "run_all"
    /\ ret.kind = "returned"
    /\ ret.rerun
    /\ ret.strategy = "ob_refined_strategy"
    /\ \E i \in 1..Len(results_file[ret.strategy].content) :
           results_file[ret.strategy].content[i].val # <<>>

\* C9: the mapping a batch run returns has the keys and values of the result
\* file it wrote: a dropped symbol has no key in it.
C9_ReturnsFilteredMapping ==
    (ret.op = "run_all" /\ ret.kind = "returned") =>
        ret.value = results_file[ret.strategy].content

\* C10: an invocation that met a persistence failure raises; the failure is
\* never turned into the error record of a symbol.
C10_PersistenceErrorsPropagate ==
    ret.persist_errors > 0 => ret.kind = "raised"

====
